---- MODULE Spec2Model ----
(***************************************************************************)
(* A model of the conversion scripts of the repository:                    *)
(*   lidar_map/jsonprocess.py    reconstruct_point_cloud_from_json_files    *)
(*   lidar_map/read_lidar_msg.py read_lidar_msg, parse_point_cloud_data,    *)
(*                               save_frame_as_json, save_point_cloud,      *)
(*                               save_all_frames, process_json_files        *)
(*   convert_to_ply.py           read_point_cloud, write_ply, main          *)
(*   height_map/read_msg.py      read_msg_file, save_as_images,             *)
(*                               save_as_numpy, save_as_hdf5                *)
(* Every script is a standalone, single-threaded pass; a behaviour of the   *)
(* model is one run of one routine, chosen by prog.  An exception nobody    *)
(* catches ends the run in pc = "raised" with its name in err.              *)
(***************************************************************************)
EXTENDS Integers, Sequences, FiniteSets, TLC

VARIABLES
    prog,          \* the routine this run executes
    pc,            \* its position
    err,           \* the exception that left the routine, or "none"
    log,           \* the diagnostics printed so far
    file_exists,   \* whether the input file of a reader exists
    out_dir,       \* whether the output directory exists: "absent", "present"
    out_files,     \* the output files opened for writing, in order
    ret,           \* what the routine returned: "pending", "None", "list", ...
    \* reconstruct_point_cloud_from_json_files
    n_files,       \* number of entries os.listdir returns
    file_idx,      \* entries of the listing consumed so far
    point_step,    \* data['point_step'] of the file being decoded
    data_bytes,    \* data['data'] of the file being decoded
    i,             \* loop variable of the byte loop
    all_points,    \* the records appended so far
    file_base,     \* history: Len(all_points) when the current file was opened
    \* read_lidar_msg
    frames,        \* what the unpacker yields, item by item
    frame_count,   \* frame_count
    points_list,   \* points_list
    metadata_list, \* metadata_list
    \* save_all_frames
    point_clouds,  \* point_clouds: the arrays handed to save_all_frames
    sa_i,          \* i of its enumerate loop
    \* process_json_files
    input_dir,     \* what os.listdir(input_dir) returns, entry by entry
    pj_i,          \* entries of the listing consumed so far
    \* convert_to_ply
    text,          \* the characters of the input file
    numbers,       \* numbers: the tokens re.findall returned
    points,        \* the rows of the array read_point_cloud returns
    ply_file,      \* the lines of the file write_ply wrote
    \* height_map/read_msg
    hm_data,       \* data: the frames of the stream, or the list given to a writer
    hm_i,          \* frames a writer's loop has consumed
    processed      \* frames appended to processed_data by save_as_numpy

commonVars == <<prog, pc, err, log, file_exists>>
ioVars == <<out_dir, out_files, ret>>
jsonVars == <<n_files, file_idx, point_step, data_bytes, i, all_points, file_base>>
lidarVars == <<frames, frame_count, points_list, metadata_list>>
plyVars == <<text, numbers, points, ply_file>>
heightVars == <<hm_data, hm_i, processed>>
saveVars == <<point_clouds, sa_i, input_dir, pj_i>>
vars == <<commonVars, ioVars, jsonVars, lidarVars, plyVars, heightVars, saveVars>>

(***************************************************************************)
(* Bounds of the model.                                                    *)
(***************************************************************************)
MaxFiles == 2      \* entries in the JSON input directory
MaxStride == 13    \* largest point_step drawn
MaxBufLen == 26    \* longest byte buffer drawn
MaxFrames == 2     \* items in a lidar stream
MaxPoints == 8     \* longest 'points' list of a lidar frame
MaxWords == 6      \* words in the text file given to convert_to_ply
MaxHeightFrames == 3   \* frames in a height-map stream or list
MaxClouds == 2     \* arrays in the list given to save_all_frames
MaxEntries == 2    \* entries in the directory given to process_json_files

(***************************************************************************)
(* The variables of a routine that is not the one running.                 *)
(***************************************************************************)
JsonIdle ==
    /\ n_files = 0
    /\ file_idx = 0
    /\ point_step = 0
    /\ data_bytes = <<>>
    /\ i = 0
    /\ all_points = <<>>
    /\ file_base = 0

LidarIdle ==
    /\ frames = <<>>
    /\ frame_count = 0
    /\ points_list = <<>>
    /\ metadata_list = <<>>

PlyIdle ==
    /\ text = <<>>
    /\ numbers = <<>>
    /\ points = <<>>
    /\ ply_file = <<>>

HeightIdle ==
    /\ hm_data = <<>>
    /\ hm_i = 0
    /\ processed = 0

SaveIdle ==
    /\ point_clouds = <<>>
    /\ sa_i = 0
    /\ input_dir = <<>>
    /\ pj_i = 0

\* An output file: what it is, the frame it belongs to (0: the whole run),
\* and whether the write that fills it ran to its end.
OutFile(kind, n, complete) == [kind |-> kind, frame |-> n, complete |-> complete]

(***************************************************************************)
(* Python helpers.                                                         *)
(***************************************************************************)
Min(a, b) == IF a < b THEN a ELSE b

\* s[a:b] for 0 <= a <= b on a 0-indexed Python sequence: clipped at len(s).
Slice(s, a, b) ==
    LET lo == Min(a, Len(s))
        hi == Min(b, Len(s))
    IN  [k \in 1..(hi - lo) |-> s[lo + k]]

\* The exist_ok argument every os.makedirs call of the scripts passes.
ExistOk_Off == FALSE
ExistOk == TRUE

\* os.makedirs(output_dir, exist_ok=ExistOk) on a directory in state dir: the
\* exception it raises, or "none".  The directory exists afterwards.
MakeDirsError(dir) ==
    IF dir = "present" /\ ~ExistOk THEN "FileExistsError" ELSE "none"

(***************************************************************************)
(* lidar_map/jsonprocess.py                                                *)
(***************************************************************************)
FloatSize == 4

\* The IEEE-754 binary32 value of four little-endian bytes, kept as its
\* sign, biased exponent and fraction fields.
Float32LE(b) ==
    [sign |-> b[4] \div 128,
     exp  |-> (b[4] % 128) * 2 + b[3] \div 128,
     man  |-> (b[3] % 128) * 65536 + b[2] * 256 + b[1]]

\* np.frombuffer(bytearray(w), dtype=np.float32)[0]: the exception it raises,
\* or "none".  A buffer that is not a whole number of floats is refused by
\* frombuffer; an empty one gives an empty array, whose [0] is out of range.
FromBufferError(w) ==
    IF Len(w) % FloatSize # 0 THEN "ValueError"
    ELSE IF Len(w) = 0 THEN "IndexError"
    ELSE "none"

FromBuffer(w) == Float32LE(w)

\* The three windows read at offset off (lines 25-27).
WindowX(bytes, off) == Slice(bytes, off, off + 4)
WindowY(bytes, off) == Slice(bytes, off + 4, off + 8)
WindowZ(bytes, off) == Slice(bytes, off + 8, off + 12)

\* The first exception of one pass of the loop body at offset off, or "none".
DecodeError(bytes, off) ==
    IF FromBufferError(WindowX(bytes, off)) # "none"
        THEN FromBufferError(WindowX(bytes, off))
    ELSE IF FromBufferError(WindowY(bytes, off)) # "none"
        THEN FromBufferError(WindowY(bytes, off))
    ELSE FromBufferError(WindowZ(bytes, off))

\* DecodeRecord with the y and z windows exchanged.
DecodeRecord_Swapped(bytes, off) ==
    <<FromBuffer(WindowX(bytes, off)),
      FromBuffer(WindowZ(bytes, off)),
      FromBuffer(WindowY(bytes, off))>>

\* The record [x, y, z] appended by one pass of the loop body at offset off.
DecodeRecord(bytes, off) ==
    <<FromBuffer(WindowX(bytes, off)),
      FromBuffer(WindowY(bytes, off)),
      FromBuffer(WindowZ(bytes, off))>>

\* Input byte buffers: every position holds a different byte value.
Seeds == {131}
ByteBuf(len, seed) == [k \in 1..len |-> (seed + 37 * k) % 256]

\* The entries os.listdir can return: another kind of file, a JSON file
\* lacking a key, a JSON file holding point_step and data.
DirEntries ==
    {[json |-> FALSE, keys |-> TRUE, point_step |-> 0, data |-> <<>>],
     [json |-> TRUE, keys |-> FALSE, point_step |-> 0, data |-> <<>>]}
    \cup
    {[json |-> TRUE, keys |-> TRUE, point_step |-> s, data |-> ByteBuf(n, sd)] :
        s \in 0..MaxStride, n \in 0..MaxBufLen, sd \in Seeds}

InitReconstruct ==
    /\ prog = "reconstruct_point_cloud_from_json_files"
    /\ pc = "listdir"
    /\ err = "none"
    /\ log = <<>>
    /\ file_exists = TRUE
    /\ n_files \in 0..MaxFiles
    /\ file_idx = 0
    /\ point_step = 0
    /\ data_bytes = <<>>
    /\ i = 0
    /\ all_points = <<>>
    /\ file_base = 0
    /\ out_dir = "present"
    /\ out_files = <<>>
    /\ ret = "pending"
    /\ LidarIdle
    /\ PlyIdle
    /\ HeightIdle
    /\ SaveIdle

\* Lines 11-24: the next directory entry.  A file that is not *.json is passed
\* over; data['point_step'] or data['data'] of a file lacking the key raises
\* KeyError; range() with a zero step raises ValueError.
Reconstruct_NextFile ==
    /\ prog = "reconstruct_point_cloud_from_json_files"
    /\ pc = "listdir"
    /\ file_idx < n_files
    /\ \E f \in DirEntries :
        /\ file_idx' = file_idx + 1
        /\ IF ~f.json
             THEN UNCHANGED <<pc, err, point_step, data_bytes, i, file_base>>
           ELSE IF ~f.keys
             THEN /\ pc' = "raised"
                  /\ err' = "KeyError"
                  /\ UNCHANGED <<point_step, data_bytes, i, file_base>>
           ELSE IF f.point_step = 0
             THEN /\ pc' = "raised"
                  /\ err' = "ValueError"
                  /\ point_step' = f.point_step
                  /\ data_bytes' = f.data
                  /\ file_base' = Len(all_points)
                  /\ UNCHANGED i
           ELSE /\ pc' = "bytes"
                /\ point_step' = f.point_step
                /\ data_bytes' = f.data
                /\ i' = 0
                /\ file_base' = Len(all_points)
                /\ UNCHANGED err
    /\ UNCHANGED <<prog, log, file_exists, n_files, all_points, lidarVars, plyVars,
                   heightVars, ioVars, saveVars>>

\* Lines 24-28: one pass of the byte loop at offset i.
Reconstruct_Decode ==
    /\ prog = "reconstruct_point_cloud_from_json_files"
    /\ pc = "bytes"
    /\ i < Len(data_bytes)
    /\ IF DecodeError(data_bytes, i) # "none"
         THEN /\ pc' = "raised"
              /\ err' = DecodeError(data_bytes, i)
              /\ UNCHANGED <<i, all_points>>
         ELSE /\ all_points' = Append(all_points, DecodeRecord(data_bytes, i))
              /\ i' = i + point_step
              /\ UNCHANGED <<pc, err>>
    /\ UNCHANGED <<prog, log, file_exists, n_files, file_idx, point_step,
                   data_bytes, file_base, lidarVars, plyVars,
                   heightVars, ioVars, saveVars>>

\* Line 24: the range is exhausted, back to the directory loop.
Reconstruct_EndFile ==
    /\ prog = "reconstruct_point_cloud_from_json_files"
    /\ pc = "bytes"
    /\ i >= Len(data_bytes)
    /\ pc' = "listdir"
    /\ UNCHANGED <<prog, err, log, file_exists, jsonVars, lidarVars, plyVars,
                   heightVars, ioVars, saveVars>>

\* Lines 31-44: the listing is exhausted, the cloud is written and rendered.
Reconstruct_Write ==
    /\ prog = "reconstruct_point_cloud_from_json_files"
    /\ pc = "listdir"
    /\ file_idx = n_files
    /\ pc' = "done"
    /\ out_files' = out_files \o <<OutFile("ply", 0, TRUE), OutFile("png", 0, TRUE)>>
    /\ ret' = "None"
    /\ UNCHANGED <<prog, err, log, file_exists, jsonVars, lidarVars, plyVars,
                   heightVars, out_dir, saveVars>>


(***************************************************************************)
(* lidar_map/read_lidar_msg.py                                             *)
(***************************************************************************)
PointArity == 4

\* Reshape if the rows were filled in column-major order.
Reshape_ColumnMajor(v, k) ==
    [j \in 1..(Len(v) \div k) |->
        [c \in 1..k |-> v[(c - 1) * (Len(v) \div k) + j]]]

\* v.reshape(-1, k) of a flat array whose length is a multiple of k: the rows
\* in row-major order.
RECURSIVE Reshape(_, _)
Reshape(v, k) ==
    IF Len(v) < k THEN <<>>
    ELSE <<SubSeq(v, 1, k)>> \o Reshape(SubSeq(v, k + 1, Len(v)), k)

\* ParsePointCloudData if a length that is no multiple of 4 were truncated
\* instead of refused.
ParsePointCloudData_Truncating(data) ==
    IF ~data.sized THEN <<>>
    ELSE Reshape(SubSeq(data.items, 1, Len(data.items)
                                        - (Len(data.items) % PointArity)),
                 PointArity)

\* parse_point_cloud_data(data): the array it returns, as its sequence of
\* rows; np.array([]) is the empty sequence.  A value that has no len()
\* raises inside the try and the handler returns np.array([]).
ParsePointCloudData(data) ==
    IF ~data.sized THEN <<>>
    ELSE IF Len(data.items) % PointArity # 0 THEN <<>>
    ELSE Reshape(data.items, PointArity)

\* What parse_point_cloud_data prints besides its debugging output.
ParseDiagnostics(data) ==
    IF ~data.sized THEN <<"parse_error">>
    ELSE IF Len(data.items) % PointArity # 0 THEN <<"length_not_multiple_of_4">>
    ELSE <<>>

\* A 'points' list of n scalars, every position holding a different value,
\* and a 'points' value that is no list (sized = FALSE: len() of it raises).
Payload(n) == [sized |-> TRUE, items |-> [k \in 1..n |-> 100 + k]]
NotAList == [sized |-> FALSE, items |-> <<>>]

\* The items an unpacker can yield.  kind "malformed" is a position where the
\* unpacker itself raises; kind "other" is a value that is not a mapping.
\* print_ok = FALSE: print() of the frame raises (line 133).  json_ok = FALSE:
\* json.dump of the frame raises inside save_frame_as_json.
LidarFrame(kind, pts, has_pts, print_ok, json_ok) ==
    [kind |-> kind, points |-> pts, has_points |-> has_pts,
     print_ok |-> print_ok, json_ok |-> json_ok]

LidarItems ==
    {LidarFrame("malformed", NotAList, FALSE, TRUE, TRUE),
     LidarFrame("other", NotAList, FALSE, TRUE, TRUE),
     LidarFrame("dict", NotAList, FALSE, TRUE, TRUE),
     LidarFrame("dict", NotAList, FALSE, TRUE, FALSE),
     LidarFrame("dict", Payload(PointArity), TRUE, FALSE, TRUE),
     LidarFrame("dict", NotAList, TRUE, TRUE, TRUE)}
    \cup {LidarFrame("dict", Payload(n), TRUE, TRUE, TRUE) : n \in 0..MaxPoints}

LidarStreams == UNION {[1..n -> LidarItems] : n \in 0..MaxFrames}

InitReadLidar ==
    /\ prog = "read_lidar_msg"
    /\ pc = "open"
    /\ err = "none"
    /\ log = <<>>
    /\ file_exists \in BOOLEAN
    /\ frames \in (IF file_exists THEN LidarStreams ELSE {<<>>})
    /\ frame_count = 0
    /\ points_list = <<>>
    /\ metadata_list = <<>>
    /\ out_dir \in {"absent", "present"}
    /\ out_files = <<>>
    /\ ret = "pending"
    /\ JsonIdle
    /\ PlyIdle
    /\ HeightIdle
    /\ SaveIdle

\* save_frame_as_json (lines 93-100): the file it leaves behind and what it
\* prints.  The file is opened before json.dump runs, so a frame json.dump
\* refuses leaves an incomplete file and an error message.
SavedFile(frame, n) == OutFile("json", n, frame.json_ok)
SavedFiles(frame, n, dir) ==
    IF MakeDirsError(dir) # "none" THEN <<>> ELSE <<SavedFile(frame, n)>>
SaveDiagnostics(frame, n, dir) ==
    IF MakeDirsError(dir) = "none" /\ frame.json_ok THEN <<>>
    ELSE <<[arg |-> n, msg |-> "save_error"]>>

Tag(n, msgs) == [k \in 1..Len(msgs) |-> [arg |-> n, msg |-> msgs[k]]]

\* Lines 116-122 and 163-164: the file is opened and fed to the unpacker; a
\* missing file is caught, reported, and the empty lists are returned.
ReadLidar_Open ==
    /\ prog = "read_lidar_msg"
    /\ pc = "open"
    /\ IF file_exists
         THEN /\ pc' = "frames"
              /\ UNCHANGED <<log, ret>>
         ELSE /\ pc' = "done"
              /\ log' = Append(log, [arg |-> 0, msg |-> "file_not_found"])
              /\ ret' = "lists"
    /\ UNCHANGED <<prog, err, file_exists, out_dir, out_files, jsonVars,
                   lidarVars, plyVars, heightVars, saveVars>>

\* AfterFrameError if the handler left the loop instead of going on.
AfterFrameError_Abort == "done"

\* What the handler of line 156 does with the loop: it goes on.
AfterFrameError == "frames"

\* KeepsEntry if the array were appended whatever its length.
KeepsEntry_Always(parsed) == TRUE

\* Line 145: the array parse_point_cloud_data returned is appended to
\* points_list only if len(points) > 0.
KeepsEntry(parsed) == Len(parsed) > 0

\* Lines 128-158: one pass of the frame loop over a value the unpacker yielded.
ReadLidar_Frame ==
    /\ prog = "read_lidar_msg"
    /\ pc = "frames"
    /\ frame_count < Len(frames)
    /\ frames[frame_count + 1].kind # "malformed"
    /\ LET n == frame_count + 1
           frame == frames[n]
           parsed == ParsePointCloudData(frame.points)
       IN  /\ frame_count' = n
           /\ IF frame.kind # "dict"
                THEN UNCHANGED <<pc, log, points_list, metadata_list, out_dir,
                                 out_files>>
              ELSE IF ~frame.print_ok
                THEN /\ pc' = AfterFrameError
                     /\ log' = Append(log, [arg |-> n, msg |-> "frame_error"])
                     /\ UNCHANGED <<points_list, metadata_list, out_dir,
                                    out_files>>
              ELSE IF ~frame.has_points
                THEN /\ out_dir' = "present"
                     /\ out_files' = out_files \o SavedFiles(frame, n, out_dir)
                     /\ log' = log \o SaveDiagnostics(frame, n, out_dir)
                                   \o <<[arg |-> n, msg |-> "missing_points"]>>
                     /\ UNCHANGED <<pc, points_list, metadata_list>>
              ELSE /\ out_dir' = "present"
                   /\ out_files' = out_files \o SavedFiles(frame, n, out_dir)
                   /\ points_list' = IF KeepsEntry(parsed)
                                       THEN Append(points_list, parsed)
                                       ELSE points_list
                   /\ metadata_list' = Append(metadata_list, n)
                   /\ log' = log \o SaveDiagnostics(frame, n, out_dir)
                                 \o Tag(n, ParseDiagnostics(frame.points))
                                 \o <<[arg |-> n,
                                       msg |-> IF KeepsEntry(parsed) THEN "parsed"
                                               ELSE "parse_failed"]>>
                   /\ UNCHANGED pc
    /\ UNCHANGED <<prog, err, file_exists, ret, frames, jsonVars, plyVars,
                   heightVars, saveVars>>

\* Lines 128 and 165-166: the unpacker raises on the next item; the handler
\* around the whole loop reports it and the lists are returned as they are.
ReadLidar_UnpackError ==
    /\ prog = "read_lidar_msg"
    /\ pc = "frames"
    /\ frame_count < Len(frames)
    /\ frames[frame_count + 1].kind = "malformed"
    /\ pc' = "done"
    /\ log' = Append(log, [arg |-> 0, msg |-> "read_error"])
    /\ ret' = "lists"
    /\ UNCHANGED <<prog, err, file_exists, out_dir, out_files, jsonVars,
                   lidarVars, plyVars, heightVars, saveVars>>

\* Lines 160-168: the stream is exhausted; the totals are printed and the
\* lists returned.
ReadLidar_Return ==
    /\ prog = "read_lidar_msg"
    /\ pc = "frames"
    /\ frame_count = Len(frames)
    /\ pc' = "done"
    /\ ret' = "lists"
    /\ UNCHANGED <<prog, err, log, file_exists, out_dir, out_files, jsonVars,
                   lidarVars, plyVars, heightVars, saveVars>>


(***************************************************************************)
(* convert_to_ply.py                                                       *)
(***************************************************************************)
XyzArity == 3

DigitChars == <<"0", "1", "2", "3", "4", "5", "6", "7", "8", "9">>
IsDigit(c) == \E d \in 1..10 : DigitChars[d] = c
DigitValue(c) == (CHOOSE d \in 1..10 : DigitChars[d] = c) - 1

\* The first position at or after p of t that holds no digit.
RECURSIVE DigitRun(_, _)
DigitRun(t, p) ==
    IF p <= Len(t) /\ IsDigit(t[p]) THEN DigitRun(t, p + 1) ELSE p

\* The position after the match of -?\d+\.?\d* that starts at p, 0 if none.
MatchEnd(t, p) ==
    LET q == IF t[p] = "-" THEN p + 1 ELSE p
    IN  IF q > Len(t) \/ ~IsDigit(t[q]) THEN 0
        ELSE LET a == DigitRun(t, q)
                 b == IF a <= Len(t) /\ t[a] = "." THEN a + 1 ELSE a
             IN  DigitRun(t, b)

\* re.findall(r'-?\d+\.?\d*', t): the non-overlapping matches, left to right.
RECURSIVE FindAllFrom(_, _)
FindAllFrom(t, p) ==
    IF p > Len(t) THEN <<>>
    ELSE LET e == MatchEnd(t, p)
         IN  IF e = 0 THEN FindAllFrom(t, p + 1)
             ELSE <<SubSeq(t, p, e - 1)>> \o FindAllFrom(t, e)

FindAll(t) == FindAllFrom(t, 1)

\* The number a run of digits spells.
RECURSIVE DigitsToNat(_)
DigitsToNat(ds) ==
    IF Len(ds) = 0 THEN 0
    ELSE 10 * DigitsToNat(SubSeq(ds, 1, Len(ds) - 1)) + DigitValue(ds[Len(ds)])

\* The digits that spell a natural number.
RECURSIVE NatToDigits(_)
NatToDigits(n) ==
    IF n < 10 THEN <<DigitChars[n + 1]>>
    ELSE NatToDigits(n \div 10) \o <<DigitChars[(n % 10) + 1]>>

\* The float32 a decimal token converts to.  The tokens of the model have the
\* fractions "", "0" and "5", so the value is a whole number of halves, which
\* float32 holds exactly: a value is kept as its number of halves.
ToFloat32(tok) ==
    LET neg == tok[1] = "-"
        body == IF neg THEN SubSeq(tok, 2, Len(tok)) ELSE tok
        dot == CHOOSE k \in 1..(Len(body) + 1) :
                   /\ k = Len(body) + 1 \/ body[k] = "."
                   /\ \A m \in 1..(k - 1) : body[m] # "."
        whole == DigitsToNat(SubSeq(body, 1, dot - 1))
        frac == SubSeq(body, dot + 1, Len(body))
        halves == 2 * whole + (IF frac = <<"5">> THEN 1 ELSE 0)
    IN  IF neg THEN 0 - halves ELSE halves

\* str() of a float32 that is a whole number of halves: "-2.5", "3.0".
FormatFloat32(h) ==
    LET mag == IF h < 0 THEN 0 - h ELSE h
    IN  (IF h < 0 THEN <<"-">> ELSE <<>>)
        \o NatToDigits(mag \div 2) \o <<".">>
        \o (IF mag % 2 = 1 THEN <<"5">> ELSE <<"0">>)

\* np.array(numbers, dtype=np.float32)
ToArray(toks) == [k \in 1..Len(toks) |-> ToFloat32(toks[k])]

\* DropTail if the slice were points[(len(points) % 3):].
DropTail_Head(v) ==
    IF Len(v) % XyzArity # 0
        THEN SubSeq(v, (Len(v) % XyzArity) + 1, Len(v))
        ELSE v

\* Lines 16-18: points[:-(len(points) % 3)] when the length is no multiple of 3.
DropTail(v) ==
    IF Len(v) % XyzArity # 0
        THEN SubSeq(v, 1, Len(v) - (Len(v) % XyzArity))
        ELSE v

\* What line 17 prints.
DropWarning(v) ==
    IF Len(v) % XyzArity # 0
        THEN <<[arg |-> Len(v) % XyzArity, msg |-> "ignoring_last"]>>
        ELSE <<>>

\* points.reshape(num_points, 3) with num_points = len(points) // 3 (lines
\* 21-22): the exception it raises, or "none".
ReshapeRowsError(v) ==
    IF (Len(v) \div XyzArity) * XyzArity # Len(v) THEN "ValueError" ELSE "none"

\* read_point_cloud, lines 13-24, on the tokens of an existing file.
ReadPointCloud(toks) == Reshape(DropTail(ToArray(toks)), XyzArity)
ReadPointCloudError(toks) == ReshapeRowsError(DropTail(ToArray(toks)))

\* write_ply, lines 30-40: the lines of the file, each without its newline.
Chars_ply == <<"p", "l", "y">>
Chars_format == <<"f", "o", "r", "m", "a", "t", " ", "a", "s", "c", "i", "i",
                  " ", "1", ".", "0">>
Chars_element == <<"e", "l", "e", "m", "e", "n", "t", " ", "v", "e", "r", "t",
                   "e", "x", " ">>
Chars_property == <<"p", "r", "o", "p", "e", "r", "t", "y", " ", "f", "l", "o",
                    "a", "t", " ">>
Chars_end_header == <<"e", "n", "d", "_", "h", "e", "a", "d", "e", "r">>

PlyHeader(n) ==
    <<Chars_ply,
      Chars_format,
      Chars_element \o NatToDigits(n),
      Chars_property \o <<"x">>,
      Chars_property \o <<"y">>,
      Chars_property \o <<"z">>,
      Chars_end_header>>

\* PlyLine if the first two fields were written in the other order.
PlyLine_Swapped(point) ==
    FormatFloat32(point[2]) \o <<" ">> \o FormatFloat32(point[1]) \o <<" ">>
        \o FormatFloat32(point[3])

PlyLine(point) ==
    FormatFloat32(point[1]) \o <<" ">> \o FormatFloat32(point[2]) \o <<" ">>
        \o FormatFloat32(point[3])

WritePly(pts) == PlyHeader(Len(pts)) \o [j \in 1..Len(pts) |-> PlyLine(pts[j])]

\* The input files of the model: words separated by single blanks.
Words ==
    {<<"1", ".", "0">>, <<"-", "2", ".", "5">>, <<"x", "7", "0", ".">>, <<"p">>}

RECURSIVE JoinWords(_)
JoinWords(ws) ==
    IF Len(ws) = 0 THEN <<>>
    ELSE IF Len(ws) = 1 THEN ws[1]
    ELSE ws[1] \o <<" ">> \o JoinWords(Tail(ws))

Texts == {JoinWords(ws) : ws \in UNION {[1..n -> Words] : n \in 0..MaxWords}}

InitConvertToPly ==
    /\ prog = "convert_to_ply"
    /\ pc = "read_point_cloud"
    /\ err = "none"
    /\ log = <<>>
    /\ file_exists \in BOOLEAN
    /\ text \in (IF file_exists THEN Texts ELSE {<<>>})
    /\ numbers = <<>>
    /\ points = <<>>
    /\ ply_file = <<>>
    /\ out_dir = "present"
    /\ out_files = <<>>
    /\ ret = "pending"
    /\ JsonIdle
    /\ LidarIdle
    /\ HeightIdle
    /\ SaveIdle

\* What open(file_path, 'r') of a missing file does to read_point_cloud: the
\* FileNotFoundError is caught nowhere, neither here nor in main.
MissingInputFile == "raised"

\* main, line 48, and read_point_cloud, lines 4-24.
ConvertToPly_Read ==
    /\ prog = "convert_to_ply"
    /\ pc = "read_point_cloud"
    /\ IF file_exists
         THEN LET found == FindAll(text)
              IN  /\ numbers' = found
                  /\ log' = log \o DropWarning(ToArray(found))
                  /\ IF ReadPointCloudError(found) = "none"
                       THEN /\ pc' = "write_ply"
                            /\ points' = ReadPointCloud(found)
                            /\ UNCHANGED err
                       ELSE /\ pc' = "raised"
                            /\ err' = ReadPointCloudError(found)
                            /\ UNCHANGED points
         ELSE /\ pc' = MissingInputFile
              /\ err' = "FileNotFoundError"
              /\ UNCHANGED <<numbers, points, log>>
    /\ UNCHANGED <<prog, file_exists, text, ply_file, ioVars, jsonVars,
                   lidarVars, heightVars, saveVars>>

\* main, lines 51-53, and write_ply, lines 26-40.
ConvertToPly_Write ==
    /\ prog = "convert_to_ply"
    /\ pc = "write_ply"
    /\ pc' = "done"
    /\ ply_file' = WritePly(points)
    /\ out_files' = Append(out_files, OutFile("ply", 0, TRUE))
    /\ log' = Append(log, [arg |-> 0, msg |-> "ply_saved"])
    /\ ret' = "None"
    /\ UNCHANGED <<prog, err, file_exists, text, numbers, points, out_dir,
                   jsonVars, lidarVars, heightVars, saveVars>>


(***************************************************************************)
(* height_map/read_msg.py                                                  *)
(***************************************************************************)
\* A height-map frame: whether it has the keys 'data' and 'origin', the
\* length of its 'data' list, and its 'height' and 'width'.  Every frame has
\* 'stamp', 'resolution', 'height' and 'width'.
HeightFrame(has_data, has_origin, n, h, w) ==
    [kind |-> "dict", has_data |-> has_data, has_origin |-> has_origin,
     n |-> n, height |-> h, width |-> w]

HeightFrames ==
    {HeightFrame(TRUE, TRUE, 4, 2, 2),
     HeightFrame(TRUE, TRUE, 3, 2, 2),
     HeightFrame(FALSE, TRUE, 0, 2, 2),
     HeightFrame(TRUE, FALSE, 4, 2, 2)}

\* A position of the stream where the unpacker raises.
MalformedItem == [kind |-> "malformed", has_data |-> FALSE, has_origin |-> FALSE,
                  n |-> 0, height |-> 0, width |-> 0]

HeightLists == UNION {[1..n -> HeightFrames] : n \in 0..MaxHeightFrames}
HeightStreams ==
    UNION {[1..n -> HeightFrames \cup {MalformedItem}] : n \in 0..MaxHeightFrames}

\* np.array(frame['data']).reshape(frame['height'], frame['width']): the
\* exception it raises, or "none".
ReshapeError(frame) ==
    IF ~frame.has_data THEN "KeyError"
    ELSE IF frame.n # frame.height * frame.width THEN "ValueError"
    ELSE "none"

\* frame['origin']: the exception it raises, or "none".
OriginError(frame) == IF frame.has_origin THEN "none" ELSE "KeyError"

\* data[0]['resolution']: the exception it raises, or "none".
FirstFrameError(frs) == IF Len(frs) = 0 THEN "IndexError" ELSE "none"

\* The first exception in a sequence of outcomes, or "none".
RECURSIVE FirstError(_)
FirstError(outcomes) ==
    IF Len(outcomes) = 0 THEN "none"
    ELSE IF Head(outcomes) # "none" THEN Head(outcomes)
    ELSE FirstError(Tail(outcomes))

InitHeightWriter ==
    /\ prog \in {"save_as_images", "save_as_numpy", "save_as_hdf5"}
    /\ pc = "start"
    /\ err = "none"
    /\ log = <<>>
    /\ file_exists = TRUE
    /\ hm_data \in HeightLists
    /\ hm_i = 0
    /\ processed = 0
    /\ out_dir \in (IF prog = "save_as_images" THEN {"absent", "present"}
                    ELSE {"present"})
    /\ out_files = <<>>
    /\ ret = "pending"
    /\ JsonIdle
    /\ LidarIdle
    /\ PlyIdle
    /\ SaveIdle

InitReadMsgFile ==
    /\ prog = "read_msg_file"
    /\ pc = "start"
    /\ err = "none"
    /\ log = <<>>
    /\ file_exists \in BOOLEAN
    /\ hm_data \in (IF file_exists THEN HeightStreams ELSE {<<>>})
    /\ hm_i = 0
    /\ processed = 0
    /\ out_dir = "present"
    /\ out_files = <<>>
    /\ ret = "pending"
    /\ JsonIdle
    /\ LidarIdle
    /\ PlyIdle
    /\ SaveIdle

\* read_msg_file, lines 18-32: a missing file and an unpacking error are each
\* caught and reported, and None is returned.
ReadMsgFile ==
    /\ prog = "read_msg_file"
    /\ pc = "start"
    /\ pc' = "done"
    /\ IF ~file_exists
         THEN /\ log' = Append(log, [arg |-> 0, msg |-> "file_not_found"])
              /\ ret' = "None"
         ELSE IF \E k \in 1..Len(hm_data) : hm_data[k].kind = "malformed"
         THEN /\ log' = Append(log, [arg |-> 0, msg |-> "read_error"])
              /\ ret' = "None"
         ELSE /\ ret' = "list"
              /\ UNCHANGED log
    /\ UNCHANGED <<prog, err, file_exists, out_dir, out_files, heightVars,
                   jsonVars, lidarVars, plyVars, saveVars>>

\* save_as_images, lines 76-80: the three output directories.
SaveAsImages_MakeDirs ==
    /\ prog = "save_as_images"
    /\ pc = "start"
    /\ out_dir' = "present"
    /\ IF MakeDirsError(out_dir) # "none"
         THEN /\ pc' = "raised"
              /\ err' = MakeDirsError(out_dir)
         ELSE /\ pc' = "frames"
              /\ UNCHANGED err
    /\ UNCHANGED <<prog, log, file_exists, out_files, ret, heightVars,
                   jsonVars, lidarVars, plyVars, saveVars>>

\* save_as_images, lines 82-111: one pass of the frame loop.  Nothing in the
\* loop catches an exception.
SaveAsImages_Frame ==
    /\ prog = "save_as_images"
    /\ pc = "frames"
    /\ hm_i < Len(hm_data)
    /\ LET frame == hm_data[hm_i + 1]
           images == <<OutFile("gray", hm_i, TRUE), OutFile("color", hm_i, TRUE)>>
       IN  IF ReshapeError(frame) # "none"
             THEN /\ pc' = "raised"
                  /\ err' = ReshapeError(frame)
                  /\ UNCHANGED <<out_files, hm_i>>
           ELSE IF OriginError(frame) # "none"
             THEN /\ pc' = "raised"
                  /\ err' = OriginError(frame)
                  /\ out_files' = out_files \o images
                  /\ UNCHANGED hm_i
           ELSE /\ out_files' = out_files \o images
                                  \o <<OutFile("metadata", hm_i, TRUE)>>
                /\ hm_i' = hm_i + 1
                /\ UNCHANGED <<pc, err>>
    /\ UNCHANGED <<prog, log, file_exists, out_dir, ret, hm_data, processed,
                   jsonVars, lidarVars, plyVars, saveVars>>

\* save_as_images, line 113.
SaveAsImages_Return ==
    /\ prog = "save_as_images"
    /\ pc = "frames"
    /\ hm_i = Len(hm_data)
    /\ pc' = "done"
    /\ log' = Append(log, [arg |-> Len(hm_data), msg |-> "images_saved"])
    /\ ret' = "None"
    /\ UNCHANGED <<prog, err, file_exists, out_dir, out_files, heightVars,
                   jsonVars, lidarVars, plyVars, saveVars>>

\* save_as_numpy, lines 119-124: processed_data is built from data[0].
SaveAsNumpy_Start ==
    /\ prog = "save_as_numpy"
    /\ pc = "start"
    /\ IF FirstFrameError(hm_data) # "none"
         THEN /\ pc' = "raised"
              /\ err' = FirstFrameError(hm_data)
         ELSE /\ pc' = "frames"
              /\ UNCHANGED err
    /\ UNCHANGED <<prog, log, file_exists, ioVars, heightVars, jsonVars,
                   lidarVars, plyVars, saveVars>>

\* save_as_numpy, lines 126-130: one pass of the frame loop.
SaveAsNumpy_Frame ==
    /\ prog = "save_as_numpy"
    /\ pc = "frames"
    /\ hm_i < Len(hm_data)
    /\ LET frame == hm_data[hm_i + 1]
       IN  IF ReshapeError(frame) # "none"
             THEN /\ pc' = "raised"
                  /\ err' = ReshapeError(frame)
                  /\ UNCHANGED <<hm_i, processed>>
           ELSE IF OriginError(frame) # "none"
             THEN /\ pc' = "raised"
                  /\ err' = OriginError(frame)
                  /\ UNCHANGED <<hm_i, processed>>
           ELSE /\ hm_i' = hm_i + 1
                /\ processed' = processed + 1
                /\ UNCHANGED <<pc, err>>
    /\ UNCHANGED <<prog, log, file_exists, ioVars, hm_data, jsonVars,
                   lidarVars, plyVars, saveVars>>

\* save_as_numpy, line 132.
SaveAsNumpy_Savez ==
    /\ prog = "save_as_numpy"
    /\ pc = "frames"
    /\ hm_i = Len(hm_data)
    /\ pc' = "done"
    /\ out_files' = Append(out_files, OutFile("npz", 0, TRUE))
    /\ ret' = "None"
    /\ UNCHANGED <<prog, err, log, file_exists, out_dir, heightVars,
                   jsonVars, lidarVars, plyVars, saveVars>>

\* The first exception of save_as_hdf5's body, lines 140-149, or "none": the
\* comprehensions over the frames, then data[0]['resolution'].
Hdf5Error(frs) ==
    LET reshapes == [k \in 1..Len(frs) |-> ReshapeError(frs[k])]
        origins == [k \in 1..Len(frs) |-> OriginError(frs[k])]
    IN  IF FirstError(reshapes) # "none" THEN FirstError(reshapes)
        ELSE IF FirstError(origins) # "none" THEN FirstError(origins)
        ELSE FirstFrameError(frs)

\* save_as_hdf5, lines 138-149: the file is opened for writing, then filled.
SaveAsHdf5 ==
    /\ prog = "save_as_hdf5"
    /\ pc = "start"
    /\ out_files' = Append(out_files, OutFile("h5", 0, Hdf5Error(hm_data) = "none"))
    /\ IF Hdf5Error(hm_data) # "none"
         THEN /\ pc' = "raised"
              /\ err' = Hdf5Error(hm_data)
              /\ UNCHANGED <<hm_i, ret>>
         ELSE /\ pc' = "done"
              /\ hm_i' = Len(hm_data)
              /\ ret' = "None"
              /\ UNCHANGED err
    /\ UNCHANGED <<prog, log, file_exists, out_dir, hm_data, processed,
                   jsonVars, lidarVars, plyVars, saveVars>>

(***************************************************************************)
(* lidar_map/read_lidar_msg.py: save_point_cloud and save_all_frames       *)
(***************************************************************************)
\* An array of the list: its number of dimensions and of rows.
Cloud(ndim, rows) == [ndim |-> ndim, rows |-> rows]

\* The arrays of the model: N-by-4 arrays of one and of two rows, and the
\* one-dimensional empty array np.array([]).
Clouds == {Cloud(2, 1), Cloud(2, 2), Cloud(1, 0)}

CloudLists == UNION {[1..n -> Clouds] : n \in 0..MaxClouds}

\* The first exception inside the try of save_point_cloud (lines 180-207), or
\* "none": the makedirs of line 182, then points[:, :3] of line 185, which a
\* one-dimensional array refuses.
SavePointCloudError(cloud, dir) ==
    IF MakeDirsError(dir) # "none" THEN MakeDirsError(dir)
    ELSE IF cloud.ndim # 2 THEN "IndexError"
    ELSE "none"

\* save_point_cloud(points, frame_name, format) for frame n: the file it
\* writes and what it prints.  The file is opened by the write call, after
\* everything that can raise.
SavePointCloud(cloud, n, format, dir) ==
    IF SavePointCloudError(cloud, dir) = "none"
        THEN <<OutFile(format, n, TRUE)>>
        ELSE <<>>

SavePointCloudMessage(cloud, n, dir) ==
    [arg |-> n,
     msg |-> IF SavePointCloudError(cloud, dir) = "none" THEN "cloud_saved"
             ELSE "save_error"]

InitSaveAllFrames ==
    /\ prog = "save_all_frames"
    /\ pc = "start"
    /\ err = "none"
    /\ log = <<>>
    /\ file_exists = TRUE
    /\ point_clouds \in CloudLists
    /\ sa_i = 0
    /\ input_dir = <<>>
    /\ pj_i = 0
    /\ out_dir \in {"absent", "present"}
    /\ out_files = <<>>
    /\ ret = "pending"
    /\ JsonIdle
    /\ LidarIdle
    /\ PlyIdle
    /\ HeightIdle

\* save_all_frames, line 244.
SaveAllFrames_MakeDirs ==
    /\ prog = "save_all_frames"
    /\ pc = "start"
    /\ out_dir' = "present"
    /\ IF MakeDirsError(out_dir) # "none"
         THEN /\ pc' = "raised"
              /\ err' = MakeDirsError(out_dir)
         ELSE /\ pc' = "pcd"
              /\ UNCHANGED err
    /\ UNCHANGED <<prog, log, file_exists, out_files, ret, jsonVars, lidarVars,
                   plyVars, heightVars, saveVars>>

\* save_all_frames, lines 247-250: the PCD file of array i.
SaveAllFrames_Pcd ==
    /\ prog = "save_all_frames"
    /\ pc = "pcd"
    /\ sa_i < Len(point_clouds)
    /\ pc' = "ply"
    /\ out_files' = out_files
                      \o SavePointCloud(point_clouds[sa_i + 1], sa_i, "pcd", out_dir)
    /\ log' = Append(log, SavePointCloudMessage(point_clouds[sa_i + 1], sa_i, out_dir))
    /\ UNCHANGED <<prog, err, file_exists, out_dir, ret, jsonVars, lidarVars,
                   plyVars, heightVars, saveVars>>

\* save_all_frames, line 251: the PLY file of array i, and the loop goes on.
SaveAllFrames_Ply ==
    /\ prog = "save_all_frames"
    /\ pc = "ply"
    /\ pc' = "pcd"
    /\ out_files' = out_files
                      \o SavePointCloud(point_clouds[sa_i + 1], sa_i, "ply", out_dir)
    /\ log' = Append(log, SavePointCloudMessage(point_clouds[sa_i + 1], sa_i, out_dir))
    /\ sa_i' = sa_i + 1
    /\ UNCHANGED <<prog, err, file_exists, out_dir, ret, jsonVars, lidarVars,
                   plyVars, heightVars, point_clouds, input_dir, pj_i>>

\* save_all_frames: the list is exhausted.
SaveAllFrames_Return ==
    /\ prog = "save_all_frames"
    /\ pc = "pcd"
    /\ sa_i = Len(point_clouds)
    /\ pc' = "done"
    /\ ret' = "None"
    /\ UNCHANGED <<prog, err, log, file_exists, out_dir, out_files, jsonVars,
                   lidarVars, plyVars, heightVars, saveVars>>


(***************************************************************************)
(* lidar_map/read_lidar_msg.py: process_json_files                         *)
(***************************************************************************)
\* An entry of the input directory: whether its name ends in '.json',
\* whether json.load accepts it, whether the loaded value has the key 'data',
\* and the length of frame_data['data'].
JsonEntry(json, loads, has_data, n) ==
    [json |-> json, loads |-> loads, has_data |-> has_data, n |-> n]

JsonEntries ==
    {JsonEntry(FALSE, FALSE, FALSE, 0),
     JsonEntry(TRUE, FALSE, FALSE, 0),
     JsonEntry(TRUE, TRUE, FALSE, 0),
     JsonEntry(TRUE, TRUE, TRUE, 0),
     JsonEntry(TRUE, TRUE, TRUE, 4),
     JsonEntry(TRUE, TRUE, TRUE, 5)}

Listings == UNION {[1..n -> JsonEntries] : n \in 0..MaxEntries}

\* The first exception of one pass of the loop body over a '.json' entry
\* (lines 265-271), or "none": json.load, then reshape(-1, 4).
ProcessEntryError(entry) ==
    IF ~entry.loads THEN "JSONDecodeError"
    ELSE IF entry.has_data /\ entry.n % PointArity # 0 THEN "ValueError"
    ELSE "none"

InitProcessJsonFiles ==
    /\ prog = "process_json_files"
    /\ pc = "start"
    /\ err = "none"
    /\ log = <<>>
    /\ file_exists = TRUE
    /\ point_clouds = <<>>
    /\ sa_i = 0
    /\ input_dir \in Listings
    /\ pj_i = 0
    /\ out_dir \in {"absent", "present"}
    /\ out_files = <<>>
    /\ ret = "pending"
    /\ JsonIdle
    /\ LidarIdle
    /\ PlyIdle
    /\ HeightIdle

\* process_json_files, line 260.
ProcessJsonFiles_MakeDirs ==
    /\ prog = "process_json_files"
    /\ pc = "start"
    /\ out_dir' = "present"
    /\ IF MakeDirsError(out_dir) # "none"
         THEN /\ pc' = "raised"
              /\ err' = MakeDirsError(out_dir)
         ELSE /\ pc' = "listdir"
              /\ UNCHANGED err
    /\ UNCHANGED <<prog, log, file_exists, out_files, ret, jsonVars, lidarVars,
                   plyVars, heightVars, saveVars>>

\* process_json_files, lines 262-285: one pass of the loop over the listing.
\* Nothing in the loop catches an exception.  The image of an entry carries
\* the entry's position in the listing, counted from 1.
ProcessJsonFiles_File ==
    /\ prog = "process_json_files"
    /\ pc = "listdir"
    /\ pj_i < Len(input_dir)
    /\ LET entry == input_dir[pj_i + 1]
       IN  IF ~entry.json
             THEN /\ pj_i' = pj_i + 1
                  /\ UNCHANGED <<pc, err, log, out_files>>
           ELSE IF ProcessEntryError(entry) # "none"
             THEN /\ pc' = "raised"
                  /\ err' = ProcessEntryError(entry)
                  /\ UNCHANGED <<pj_i, log, out_files>>
           ELSE IF ~entry.has_data
             THEN /\ pj_i' = pj_i + 1
                  /\ UNCHANGED <<pc, err, log, out_files>>
           ELSE /\ pj_i' = pj_i + 1
                /\ out_files' = Append(out_files, OutFile("png", pj_i + 1, TRUE))
                /\ log' = Append(log, [arg |-> pj_i + 1, msg |-> "image_saved"])
                /\ UNCHANGED <<pc, err>>
    /\ UNCHANGED <<prog, file_exists, out_dir, ret, jsonVars, lidarVars,
                   plyVars, heightVars, point_clouds, sa_i, input_dir>>

\* process_json_files: the listing is exhausted.
ProcessJsonFiles_Return ==
    /\ prog = "process_json_files"
    /\ pc = "listdir"
    /\ pj_i = Len(input_dir)
    /\ pc' = "done"
    /\ ret' = "None"
    /\ UNCHANGED <<prog, err, log, file_exists, out_dir, out_files, jsonVars,
                   lidarVars, plyVars, heightVars, saveVars>>

Init ==
    \/ InitReconstruct
    \/ InitReadLidar
    \/ InitConvertToPly
    \/ InitHeightWriter
    \/ InitReadMsgFile
    \/ InitSaveAllFrames
    \/ InitProcessJsonFiles

Next ==
    \/ Reconstruct_NextFile
    \/ Reconstruct_Decode
    \/ Reconstruct_EndFile
    \/ Reconstruct_Write
    \/ ReadLidar_Open
    \/ ReadLidar_Frame
    \/ ReadLidar_UnpackError
    \/ ReadLidar_Return
    \/ ConvertToPly_Read
    \/ ConvertToPly_Write
    \/ ReadMsgFile
    \/ SaveAsImages_MakeDirs
    \/ SaveAsImages_Frame
    \/ SaveAsImages_Return
    \/ SaveAsNumpy_Start
    \/ SaveAsNumpy_Frame
    \/ SaveAsNumpy_Savez
    \/ SaveAsHdf5
    \/ SaveAllFrames_MakeDirs
    \/ SaveAllFrames_Pcd
    \/ SaveAllFrames_Ply
    \/ SaveAllFrames_Return
    \/ ProcessJsonFiles_MakeDirs
    \/ ProcessJsonFiles_File
    \/ ProcessJsonFiles_Return

Spec == Init /\ [][Next]_vars
(***************************************************************************)
(* Claims.                                                                 *)
(***************************************************************************)
Reconstructing == prog = "reconstruct_point_cloud_from_json_files"

\* The records appended for the file being decoded.
FileRecords == SubSeq(all_points, file_base + 1, Len(all_points))

\* The record the contract asks for at 0-based index j: the three consecutive
\* 4-byte windows starting at byte offset j * stride.
ExpectedRecord(bytes, stride, j) ==
    <<Float32LE(SubSeq(bytes, j * stride + 1, j * stride + 4)),
      Float32LE(SubSeq(bytes, j * stride + 5, j * stride + 8)),
      Float32LE(SubSeq(bytes, j * stride + 9, j * stride + 12))>>

\* C1: a byte buffer of length n*stride + r, 0 < r < stride, is decoded
\* without an exception and gives exactly n records: the partial tail window
\* gives no record and no error.
C1_PartialTailDropped ==
    (/\ Reconstructing
     /\ point_step > 0
     /\ Len(data_bytes) % point_step # 0)
    => /\ pc # "raised"
       /\ Len(FileRecords) <= Len(data_bytes) \div point_step
       /\ pc \in {"listdir", "done"}
            => Len(FileRecords) = Len(data_bytes) \div point_step

Range(q) == {q[k] : k \in 1..Len(q)}

\* C3: in every frame-iterating routine a frame that fails is skipped and
\* every later frame is still processed: no exception leaves the routine
\* while frames (or directory entries) after the failing one remain.
C3_NoFrameAbortsBatch ==
    /\ ~(/\ prog \in {"save_as_images", "save_as_numpy"}
         /\ pc = "raised"
         /\ hm_i + 1 < Len(hm_data))
    /\ ~(/\ prog = "save_as_hdf5"
         /\ pc = "raised"
         /\ \E k \in 1..(Len(hm_data) - 1) :
                ReshapeError(hm_data[k]) # "none" \/ OriginError(hm_data[k]) # "none")
    /\ ~(Reconstructing /\ pc = "raised" /\ file_idx < n_files)
    /\ ~(prog = "read_lidar_msg" /\ pc = "raised")

ReadingLidar == prog = "read_lidar_msg"
IsMapping(f) == f.kind = "dict"

\* C4: in read_lidar_msg an exception raised while frame number n is
\* processed is caught at the frame boundary and logged with n, and the loop
\* goes on: every later frame the unpacker yields is saved and parsed like
\* any other, and the function returns normally.
C4_FrameErrorContained ==
    (ReadingLidar /\ file_exists) =>
        /\ pc # "raised"
        /\ err = "none"
        /\ \A n \in 1..frame_count :
            /\ (IsMapping(frames[n]) /\ ~frames[n].print_ok)
                 => [arg |-> n, msg |-> "frame_error"] \in Range(log)
            /\ (IsMapping(frames[n]) /\ frames[n].print_ok)
                 => \E k \in 1..Len(out_files) :
                        out_files[k].kind = "json" /\ out_files[k].frame = n
            /\ (IsMapping(frames[n]) /\ frames[n].print_ok /\ frames[n].has_points)
                 => n \in Range(metadata_list)
        /\ pc = "done"
             => \/ frame_count = Len(frames)
                \/ frames[frame_count + 1].kind = "malformed"

\* The first frame raised, the second was still saved and parsed.
C4_Witness ==
    /\ ReadingLidar
    /\ pc = "done"
    /\ ret = "lists"
    /\ frame_count = 2
    /\ IsMapping(frames[1]) /\ ~frames[1].print_ok
    /\ Len(points_list) = 1
    /\ out_files = <<OutFile("json", 2, TRUE)>>

\* The frame read_lidar_msg is about to process has a 'points' list whose
\* length is no multiple of 4.
NextFrameMisaligned ==
    /\ ReadingLidar
    /\ pc = "frames"
    /\ frame_count < Len(frames)
    /\ IsMapping(frames[frame_count + 1])
    /\ frames[frame_count + 1].print_ok
    /\ frames[frame_count + 1].has_points
    /\ frames[frame_count + 1].points.sized
    /\ Len(frames[frame_count + 1].points.items) % 4 # 0

\* C6: parse_point_cloud_data on a list whose length is no multiple of 4
\* reports the mismatch and returns no records without raising; read_lidar_msg
\* then adds nothing to points_list for that frame and goes on to the next.
C6_MisalignedFrameSkipped ==
    [][NextFrameMisaligned =>
        /\ ParsePointCloudData(frames[frame_count + 1].points) = <<>>
        /\ points_list' = points_list
        /\ [arg |-> frame_count + 1, msg |-> "length_not_multiple_of_4"]
               \in Range(log')
        /\ frame_count' = frame_count + 1
        /\ pc' = "frames"
        /\ err' = "none"]_vars

\* A frame of 5 scalars was skipped and the frame of 4 after it was kept.
C6_Witness ==
    /\ ReadingLidar
    /\ frame_count = 2
    /\ frames[1].has_points /\ frames[1].points.sized
    /\ Len(frames[1].points.items) = 5
    /\ points_list = <<<<frames[2].points.items>>>>
    /\ Len(frames[2].points.items) = 4
    /\ metadata_list = <<1, 2>>

Converting == prog = "convert_to_ply"

\* The flat float array read_point_cloud builds from the tokens (line 13).
Tokens == ToArray(numbers)

\* rows are the contiguous k-chunks of the first Len(rows) * k scalars of v.
IsChunking(rows, v, k) ==
    \A j \in 1..Len(rows) :
        /\ Len(rows[j]) = k
        /\ \A c \in 1..k : rows[j][c] = v[(j - 1) * k + c]

\* C7: read_point_cloud on a token sequence v with len(v) mod 3 = r, r # 0,
\* warns naming r and returns exactly floor(len(v)/3) records, the contiguous
\* 3-chunks of the first len(v) - r tokens in order.
C7_TruncatingPolicy ==
    (Converting /\ file_exists /\ pc # "read_point_cloud") =>
        LET v == Tokens
        IN  Len(v) % 3 # 0 =>
                /\ pc # "raised"
                /\ log[1] = [arg |-> Len(v) % 3, msg |-> "ignoring_last"]
                /\ Len(points) = Len(v) \div 3
                /\ IsChunking(points, v, 3)

\* Five tokens gave one record.
C7_Witness ==
    /\ Converting
    /\ pc = "done"
    /\ Len(points) = 1
    /\ LET v == Tokens
       IN  Len(v) = 5 /\ points[1] = <<v[1], v[2], v[3]>>

\* The last frame read_lidar_msg processed, when its 'points' list was handed
\* to parse_point_cloud_data with a length that is a multiple of 4.
LastFrameAligned ==
    /\ ReadingLidar
    /\ frame_count >= 1
    /\ IsMapping(frames[frame_count])
    /\ frames[frame_count].print_ok
    /\ frames[frame_count].has_points
    /\ frames[frame_count].points.sized
    /\ Len(frames[frame_count].points.items) % 4 = 0

\* C8: a flat sequence v with len(v) mod k = 0 is reshaped into exactly
\* len(v)/k records, record j being v[j*k .. j*k + k - 1] in order (k = 3 in
\* read_point_cloud, k = 4 in parse_point_cloud_data).
C8_ContiguousChunks ==
    /\ (Converting /\ file_exists /\ pc # "read_point_cloud") =>
         LET v == Tokens
         IN  Len(v) % 3 = 0 =>
                 /\ pc # "raised"
                 /\ Len(points) = Len(v) \div 3
                 /\ IsChunking(points, v, 3)
    /\ LastFrameAligned
       => LET v == frames[frame_count].points.items
              rows == ParsePointCloudData(frames[frame_count].points)
          IN  /\ Len(rows) = Len(v) \div 4
              /\ IsChunking(rows, v, 4)
              /\ Len(v) > 0 => /\ Len(points_list) >= 1
                               /\ points_list[Len(points_list)] = rows

\* A frame of 8 scalars gave an entry of 2 records of 4.
C8_Witness ==
    /\ ReadingLidar
    /\ frame_count = 1
    /\ Len(frames[1].points.items) = 8
    /\ Len(points_list) = 1
    /\ Len(points_list[1]) = 2
    /\ points_list[1][2][4] = frames[1].points.items[8]

\* C9: when the input file does not exist, every reader reports it with a
\* message and stops without an unhandled exception, returning no frames and
\* writing no output.
C9_MissingFileReported ==
    (/\ prog \in {"read_msg_file", "read_lidar_msg", "convert_to_ply"}
     /\ ~file_exists
     /\ pc # "start" /\ pc # "open" /\ pc # "read_point_cloud")
    => /\ pc = "done"
       /\ err = "none"
       /\ [arg |-> 0, msg |-> "file_not_found"] \in Range(log)
       /\ ret \in {"None", "lists"}
       /\ out_files = <<>>
       /\ points_list = <<>> /\ metadata_list = <<>>

\* The tokens of a line: its maximal runs of characters other than blanks.
RECURSIVE SplitBlanks(_)
SplitBlanks(line) ==
    IF Len(line) = 0 THEN <<>>
    ELSE IF Head(line) = " " THEN SplitBlanks(Tail(line))
    ELSE LET end == CHOOSE e \in 1..Len(line) :
                        /\ \A m \in 1..e : line[m] # " "
                        /\ e = Len(line) \/ line[e + 1] = " "
         IN  <<SubSeq(line, 1, end)>> \o SplitBlanks(SubSeq(line, end + 1, Len(line)))

\* The numbers of the lines after the header, in order.
RECURSIVE BodyNumbers(_)
BodyNumbers(lines) ==
    IF Len(lines) = 0 THEN <<>>
    ELSE ToArray(SplitBlanks(Head(lines))) \o BodyNumbers(Tail(lines))

HeaderLines == 7

\* C10: write_ply emits the fixed header with element vertex N, N = len(R),
\* then exactly len(R) lines, line j holding the three fields of R[j] in
\* order, so that chunking the body's numbers into 3-tuples gives R back.
C10_PlyRoundTrip ==
    (Converting /\ pc = "done") =>
        /\ Len(ply_file) = HeaderLines + Len(points)
        /\ ply_file[1] = Chars_ply
        /\ ply_file[2] = Chars_format
        /\ SubSeq(ply_file[3], 1, Len(Chars_element)) = Chars_element
        /\ DigitsToNat(SubSeq(ply_file[3], Len(Chars_element) + 1, Len(ply_file[3])))
               = Len(points)
        /\ SplitBlanks(ply_file[4]) = <<SubSeq(Chars_property, 1, 8),
                                        SubSeq(Chars_property, 10, 14), <<"x">>>>
        /\ SplitBlanks(ply_file[5]) = <<SubSeq(Chars_property, 1, 8),
                                        SubSeq(Chars_property, 10, 14), <<"y">>>>
        /\ SplitBlanks(ply_file[6]) = <<SubSeq(Chars_property, 1, 8),
                                        SubSeq(Chars_property, 10, 14), <<"z">>>>
        /\ ply_file[7] = Chars_end_header
        /\ \A j \in 1..Len(points) :
               ToArray(SplitBlanks(ply_file[HeaderLines + j])) = points[j]
        /\ LET body == BodyNumbers(SubSeq(ply_file, HeaderLines + 1, Len(ply_file)))
           IN  /\ Len(body) = 3 * Len(points)
               /\ IsChunking(points, body, 3)

\* Two records, one with a negative field, were written as nine lines.
C10_Witness ==
    /\ Converting
    /\ pc = "done"
    /\ Len(points) = 2
    /\ Len(ply_file) = 9
    /\ points[2] = <<2, -5, 140>>

\* C5: a writer given an empty list completes without failing and leaves a
\* valid output with zero records.
C5_EmptyInputTolerated ==
    /\ (/\ prog \in {"save_as_images", "save_as_numpy", "save_as_hdf5"}
        /\ hm_data = <<>>)
       => /\ pc # "raised"
          /\ \A k \in 1..Len(out_files) : out_files[k].complete
    /\ (Converting /\ pc = "done" /\ points = <<>>)
       => Len(ply_file) = HeaderLines

\* The routines that write one file, or one group of files, per frame.
PerFrameWriter ==
    prog \in {"save_as_images", "read_lidar_msg", "save_all_frames",
              "process_json_files"}

\* The kinds of file a routine writes for one frame, in the order of its code.
FrameKinds ==
    IF prog = "save_as_images" THEN <<"gray", "color", "metadata">>
    ELSE IF prog = "read_lidar_msg" THEN <<"json">>
    ELSE IF prog = "save_all_frames" THEN <<"pcd", "ply">>
    ELSE <<"png">>

\* The files written for frame f, in the order they were written.
FilesOfFrame(f) == SelectSeq(out_files, LAMBDA o : o.frame = f)

\* No per-frame file exists in a directory that was not created.
DirectoryCreatedFirst == out_files # <<>> => out_dir = "present"

\* No makedirs call failed on a directory that existed: no FileExistsError
\* left a routine, and every save a handler reported as failed had a cause
\* in the frame itself.
ExistingDirectoryTolerated ==
    /\ err # "FileExistsError"
    /\ \A k \in 1..Len(log) :
         log[k].msg = "save_error" =>
            \/ prog = "read_lidar_msg" /\ ~frames[log[k].arg].json_ok
            \/ prog = "save_all_frames" /\ point_clouds[log[k].arg + 1].ndim # 2

\* The files appear frame after frame in input order, the files of one frame
\* next to each other and in the order of the code, and once a later frame
\* has a file every earlier frame that has files has all of its kinds.
WrittenInInputOrder ==
    /\ \A j, k \in 1..Len(out_files) :
         j < k => out_files[j].frame <= out_files[k].frame
    /\ \A k \in 1..Len(out_files) :
         LET group == FilesOfFrame(out_files[k].frame)
         IN  /\ Len(group) <= Len(FrameKinds)
             /\ \A m \in 1..Len(group) : group[m].kind = FrameKinds[m]
             /\ out_files[k].frame < out_files[Len(out_files)].frame
                  => Len(group) = Len(FrameKinds)

\* Every file of a frame earlier than the latest frame written is complete.
EarlierFramesComplete ==
    \A j, k \in 1..Len(out_files) :
        out_files[j].frame < out_files[k].frame => out_files[j].complete

\* A file is incomplete only because its write raised, and the handler of
\* save_frame_as_json reported that before anything else was written.
EarlierFramesEnded ==
    \A j \in 1..Len(out_files) :
        ~out_files[j].complete =>
            /\ prog = "read_lidar_msg"
            /\ [arg |-> out_files[j].frame, msg |-> "save_error"] \in Range(log)

\* C11 as stated: in every run of a per-frame writer the output directory is
\* created before the first per-frame file is written, creating it when it
\* exists is no error, and the frames are written strictly in input order,
\* frame i fully written before frame i+1 is started.
C11_FullyWrittenInOrder ==
    PerFrameWriter =>
        /\ DirectoryCreatedFirst
        /\ ExistingDirectoryTolerated
        /\ WrittenInInputOrder
        /\ EarlierFramesComplete

\* C11 as amended: the output directory is created before the first
\* per-frame file is written, creating it when it exists is no error, and the
\* frames are written strictly in input order, the writing of frame i ended
\* before frame i+1 is started: ended with all its files complete, or given
\* up after json.dump raised, with the file left incomplete and the failure
\* reported.
C11_WritingEndedInOrder ==
    PerFrameWriter =>
        /\ DirectoryCreatedFirst
        /\ ExistingDirectoryTolerated
        /\ WrittenInInputOrder
        /\ EarlierFramesEnded

\* json.dump refused frame 1 and left its file incomplete; frame 2 was then
\* written whole into the directory the first call had created.
C11_Witness ==
    /\ ReadingLidar
    /\ pc = "done"
    /\ out_dir = "present"
    /\ out_files = <<OutFile("json", 1, FALSE), OutFile("json", 2, TRUE)>>
    /\ [arg |-> 1, msg |-> "save_error"] \in Range(log)

\* The numbers, in stream order, of the frames processed so far that satisfy
\* the test given as a set of frame numbers.
FramesIn(S) == SelectSeq([n \in 1..frame_count |-> n], LAMBDA n : n \in S)

\* A mapping frame that has the key 'points'.
HasPointsKey(f) == IsMapping(f) /\ f.has_points

\* A mapping frame whose 'points' is a list of a non-zero multiple of 4 scalars.
HasWholePoints(f) ==
    /\ HasPointsKey(f)
    /\ f.points.sized
    /\ Len(f.points.items) > 0
    /\ Len(f.points.items) % 4 = 0

\* Nothing raised between the start of the frame's pass and the test of
\* line 139.
ReachedPointsCheck(f) == f.print_ok

\* points_list holds, in order, one non-empty N-by-4 entry for each frame of
\* the sequence parsed, made of the contiguous 4-chunks of its 'points', and
\* metadata_list one entry for each frame of the sequence keyed; the lists
\* line up index by index exactly when the two sequences are the same.
ListsMatch(parsed, keyed) ==
    /\ Len(points_list) = Len(parsed)
    /\ \A k \in 1..Len(points_list) :
         /\ Len(points_list[k]) > 0
         /\ k <= Len(parsed) =>
              LET v == frames[parsed[k]].points.items
              IN  /\ Len(points_list[k]) = Len(v) \div 4
                  /\ IsChunking(points_list[k], v, 4)
    /\ metadata_list = keyed
    /\ Len(points_list) <= Len(metadata_list)
    /\ (Len(points_list) = Len(metadata_list)) <=> (parsed = keyed)
    /\ parsed # keyed =>
         \E k \in 1..Len(metadata_list) :
             k > Len(parsed) \/ parsed[k] # metadata_list[k]

\* C12 as stated: after read_lidar_msg has processed any sequence of frames,
\* points_list holds in stream order exactly one non-empty N-by-4 entry for
\* each mapping frame whose 'points' length is a non-zero multiple of 4 and
\* never an empty entry, metadata_list holds one entry for every mapping
\* frame that has a 'points' key, so len(points_list) <= len(metadata_list),
\* and the lists correspond index by index only when no such frame failed to
\* parse.
C12_ListsPerMappingFrame ==
    ReadingLidar =>
        ListsMatch(FramesIn({n \in 1..frame_count : HasWholePoints(frames[n])}),
                   FramesIn({n \in 1..frame_count : HasPointsKey(frames[n])}))

\* C12 as amended: the same, counting only the mapping frames whose pass
\* reached the test for the 'points' key; a frame whose pass raised before
\* it adds to neither list.
C12_ListsPerFrameReached ==
    ReadingLidar =>
        ListsMatch(FramesIn({n \in 1..frame_count :
                                /\ HasWholePoints(frames[n])
                                /\ ReachedPointsCheck(frames[n])}),
                   FramesIn({n \in 1..frame_count :
                                /\ HasPointsKey(frames[n])
                                /\ ReachedPointsCheck(frames[n])}))

\* A frame with an empty 'points' list gave metadata only; the frame of 8
\* scalars after it gave the first entry of points_list.
C12_Witness ==
    /\ ReadingLidar
    /\ pc = "done"
    /\ frame_count = 2
    /\ HasPointsKey(frames[1]) /\ frames[1].points = Payload(0)
    /\ frames[2].points = Payload(8) /\ frames[2].print_ok
    /\ Len(points_list) = 1
    /\ Len(points_list[1]) = 2
    /\ metadata_list = <<1, 2>>
====
